---------------------------- MODULE Spec2Model ----------------------------
(***************************************************************************)
(* Entity / aspect extraction and evaluation pipeline.                     *)
(*                                                                         *)
(*   main.flow: load_data -> ModelEntityAspectGeneration(df)               *)
(*                        -> ModelEvaluation(df, model_gen_obj)            *)
(*                                                                         *)
(* Python text is a sequence of one-character strings, so that indexing a  *)
(* str ("decent"[0]) is computed and not looked up.  A Python value is a   *)
(* record with a kind; a completion text is represented by the syntax tree *)
(* Python's parser builds for it (kind "invalid" when it has none).        *)
(* Similarity scores and thresholds are fixed-point: Unit stands for 1.0.  *)
(***************************************************************************)
EXTENDS Integers, Sequences, FiniteSets, TLC

\* ------------------------------------------------------------------ bounds
\* fixed-point value of the float 1.0
Unit == 20
\* largest rounding error of a float32 cosine of a vector with itself
Ulp == 1
\* spacing of the scores sampled for two different strings
GridStep == 10

\* ------------------------------------------------------------------- text
food == <<"f","o","o","d">>
decent == <<"d","e","c","e","n","t">>
fresh == <<"f","r","e","s","h">>
service == <<"s","e","r","v","i","c","e">>
slow == <<"s","l","o","w">>
NoneText == <<"N","o","n","e">>
one == <<"1">>
two == <<"2">>
named_entity == <<"n","a","m","e","d","_","e","n","t","i","t","y">>
aspect == <<"a","s","p","e","c","t">>
null == <<"n","u","l","l">>

\* ---------------------------------------------------------- Python values
PyStr(s) == [kind |-> "str", chars |-> s, num |-> 0, keys |-> <<>>, items |-> <<>>]
PyInt(n) == [kind |-> "int", chars |-> <<>>, num |-> n, keys |-> <<>>, items |-> <<>>]
PyList(xs) == [kind |-> "list", chars |-> <<>>, num |-> 0, keys |-> <<>>, items |-> xs]
PyDict(ks, vs) == [kind |-> "dict", chars |-> <<>>, num |-> 0, keys |-> ks, items |-> vs]
\* an identifier in the text (JSON null, true, false): parses, but is no literal
PyName(s) == [kind |-> "name", chars |-> s, num |-> 0, keys |-> <<>>, items |-> <<>>]
\* text the parser rejects (truncated JSON, prose)
PyInvalid == [kind |-> "invalid", chars |-> <<>>, num |-> 0, keys |-> <<>>, items |-> <<>>]

Ok(v) == [exc |-> "", value |-> v]
Raise(e) == [exc |-> e, value |-> PyInvalid]

\* ast.literal_eval: SyntaxError when the text does not parse, ValueError
\* when the tree holds a node that is not a literal, else the value.
RECURSIVE IsLiteral(_)
IsLiteral(node) ==
    CASE node.kind \in {"str", "int"} -> TRUE
      [] node.kind = "list" -> \A i \in 1..Len(node.items) : IsLiteral(node.items[i])
      [] node.kind = "dict" -> /\ \A i \in 1..Len(node.keys) : IsLiteral(node.keys[i])
                               /\ \A i \in 1..Len(node.items) : IsLiteral(node.items[i])
      [] OTHER -> FALSE

literal_eval(text) ==
    IF text.kind = "invalid" THEN Raise("SyntaxError")
    ELSE IF ~IsLiteral(text) THEN Raise("ValueError")
    ELSE Ok(text)

\* obj[key]: dict lookup (a later duplicate key wins), list / str indexing
\* by a non-negative int, TypeError for anything else.
GetItem(obj, key) ==
    CASE obj.kind = "dict" ->
           LET hits == {i \in 1..Len(obj.keys) : obj.keys[i] = key}
           IN  IF hits = {} THEN Raise("KeyError")
               ELSE Ok(obj.items[CHOOSE i \in hits : \A j \in hits : j <= i])
      [] obj.kind = "list" ->
           IF key.kind # "int" THEN Raise("TypeError")
           ELSE IF key.num + 1 > Len(obj.items) THEN Raise("IndexError")
           ELSE Ok(obj.items[key.num + 1])
      [] obj.kind = "str" ->
           IF key.kind # "int" THEN Raise("TypeError")
           ELSE IF key.num + 1 > Len(obj.chars) THEN Raise("IndexError")
           ELSE Ok(PyStr(<<obj.chars[key.num + 1]>>))
      [] OTHER -> Raise("TypeError")

\* review_analysis[k1][k2], the first exception winning
GetItem2(obj, k1, k2) ==
    LET a == GetItem(obj, k1)
    IN  IF a.exc # "" THEN a ELSE GetItem(a.value, k2)

\* variant: the last aspect phrase is taken instead of the first
ExtractTupleLastAspect(ra) ==
    LET e == GetItem2(ra, PyStr(one), PyStr(named_entity))
        al == GetItem2(ra, PyStr(one), PyStr(aspect))
        a == IF al.exc # "" THEN al
             ELSE GetItem(al.value, PyInt(IF al.value.kind = "list" /\ Len(al.value.items) > 0
                                          THEN Len(al.value.items) - 1 ELSE 0))
    IN  IF e.exc # "" THEN [exc |-> e.exc, entity |-> PyInvalid, aspect |-> PyInvalid]
        ELSE IF a.exc # "" THEN [exc |-> a.exc, entity |-> PyInvalid, aspect |-> PyInvalid]
        ELSE [exc |-> "", entity |-> e.value, aspect |-> a.value]

\* variant: a failed lookup falls back to the "None" prediction
ExtractTupleDefault(ra) ==
    LET e == GetItem2(ra, PyStr(one), PyStr(named_entity))
        al == GetItem2(ra, PyStr(one), PyStr(aspect))
        a == IF al.exc # "" THEN al ELSE GetItem(al.value, PyInt(0))
    IN  [exc |-> "",
         entity |-> IF e.exc # "" THEN PyStr(<<"N","o","n","e">>) ELSE e.value,
         aspect |-> IF a.exc # "" THEN PyStr(<<"N","o","n","e">>) ELSE a.value]

\* variant: a "None" entity or aspect is reported as a failed extraction
ExtractTupleNoneRaises(ra) ==
    LET e == GetItem2(ra, PyStr(one), PyStr(named_entity))
        al == GetItem2(ra, PyStr(one), PyStr(aspect))
        a == IF al.exc # "" THEN al ELSE GetItem(al.value, PyInt(0))
    IN  IF e.exc # "" THEN [exc |-> e.exc, entity |-> PyInvalid, aspect |-> PyInvalid]
        ELSE IF a.exc # "" THEN [exc |-> a.exc, entity |-> PyInvalid, aspect |-> PyInvalid]
        ELSE IF e.value = PyStr(<<"N","o","n","e">>) \/ a.value = PyStr(<<"N","o","n","e">>)
        THEN [exc |-> "ValueError", entity |-> PyInvalid, aspect |-> PyInvalid]
        ELSE [exc |-> "", entity |-> e.value, aspect |-> a.value]

\* extract_tuple, lines 141-142: both reads happen before any attribute is
\* assigned, so an exception leaves the object's predictions untouched.
ExtractTupleResult(ra) ==
    LET e == GetItem2(ra, PyStr(one), PyStr(named_entity))
        al == GetItem2(ra, PyStr(one), PyStr(aspect))
        a == IF al.exc # "" THEN al ELSE GetItem(al.value, PyInt(0))
    IN  IF e.exc # "" THEN [exc |-> e.exc, entity |-> PyInvalid, aspect |-> PyInvalid]
        ELSE IF a.exc # "" THEN [exc |-> a.exc, entity |-> PyInvalid, aspect |-> PyInvalid]
        ELSE [exc |-> "", entity |-> e.value, aspect |-> a.value]

\* ------------------------------------------------------ completion texts
Pair(e, as) == PyDict(<<PyStr(named_entity), PyStr(aspect)>>, <<e, as>>)
StrList(ss) == PyList([i \in 1..Len(ss) |-> PyStr(ss[i])])
Numbered1(p) == PyDict(<<PyStr(one)>>, <<p>>)
Numbered2(p, q) == PyDict(<<PyStr(one), PyStr(two)>>, <<p, q>>)

txtFoodDecent == Numbered1(Pair(PyStr(food), StrList(<<decent>>)))
txtFoodDecentFresh == Numbered2(Pair(PyStr(food), StrList(<<decent, fresh>>)),
                                Pair(PyStr(service), StrList(<<slow>>)))
txtFoodDecentOther == Numbered2(Pair(PyStr(food), StrList(<<decent, slow>>)),
                                Pair(PyStr(NoneText), StrList(<<NoneText>>)))
txtServiceSlow == Numbered2(Pair(PyStr(service), StrList(<<slow>>)),
                            Pair(PyStr(food), StrList(<<decent>>)))
txtNoneNone == Numbered1(Pair(PyStr(NoneText), StrList(<<NoneText>>)))
txtFoodNone == Numbered1(Pair(PyStr(food), StrList(<<NoneText>>)))
txtNoneDecent == Numbered1(Pair(PyStr(NoneText), StrList(<<decent>>)))

txtTruncated == PyInvalid
txtJsonNull == Numbered1(Pair(PyName(null), StrList(<<decent>>)))
txtBareString == PyStr(food)
txtTopList == PyList(<<Pair(PyStr(food), StrList(<<decent>>))>>)
txtNoKeyOne == PyDict(<<PyStr(two)>>, <<Pair(PyStr(food), StrList(<<decent>>))>>)
txtIntKey == PyDict(<<PyInt(1)>>, <<Pair(PyStr(food), StrList(<<decent>>))>>)
txtNoEntity == Numbered1(PyDict(<<PyStr(aspect)>>, <<StrList(<<decent>>)>>))
txtNoAspect == Numbered1(PyDict(<<PyStr(named_entity)>>, <<PyStr(food)>>))
txtRecordList == Numbered1(PyList(<<PyStr(food), PyStr(decent)>>))
txtEmptyAspect == Numbered1(Pair(PyStr(food), StrList(<<>>)))
txtAspectString == Numbered1(Pair(PyStr(food), PyStr(decent)))

WellFormedTexts ==
    {txtFoodDecent, txtFoodDecentFresh, txtFoodDecentOther, txtServiceSlow,
     txtNoneNone, txtFoodNone, txtNoneDecent}

MalformedTexts ==
    {txtTruncated, txtJsonNull, txtBareString, txtTopList, txtNoKeyOne,
     txtIntKey, txtNoEntity, txtNoAspect, txtRecordList, txtEmptyAspect,
     txtAspectString}

CompletionTexts == WellFormedTexts \cup MalformedTexts


\* ------------------------------------------------------------- input data
RowFood == [review |-> "The food is decent", true_entity |-> food, true_aspect |-> decent]
RowService == [review |-> "The service was slow", true_entity |-> service, true_aspect |-> slow]
\* the CSV files of a run; only row 0 is ever read
CsvFiles == {<<RowFood>>, <<RowService, RowFood>>}

\* ------------------------------------------------------------ evaluation
\* threshold_score: float = 0.85
DefaultThreshold == (85 * Unit) \div 100
Thresholds == {0, DefaultThreshold, Unit - Ulp, Unit, Unit + Ulp, Unit + Ulp + 1}

\* The cosine of two embeddings.  The embedding model is opaque: two
\* different strings may score anywhere in [-1, 1]; a string against itself
\* scores 1.0 up to the rounding of the float32 normalisation and product.
ScoreGrid == {s \in (-Unit)..Unit : s % GridStep = 0} \cup {DefaultThreshold - 1, DefaultThreshold}
CosineOutcomes(true_val, predicted_val) ==
    IF true_val = predicted_val THEN (Unit - Ulp)..(Unit + Ulp) ELSE ScoreGrid

\* variant: strictly greater than the threshold
evaluateStrict(cosine_score, thr) == IF cosine_score > thr THEN TRUE ELSE FALSE
\* variant: operands of the comparison exchanged
evaluateSwapped(cosine_score, thr) == IF thr >= cosine_score THEN TRUE ELSE FALSE
evaluate(cosine_score, thr) == IF cosine_score >= thr THEN TRUE ELSE FALSE

\* ------------------------------------------------------------------ state
VARIABLES pc, error, df, review, messages, completion, review_analysis,
          true_entity, true_aspect, predicted_entity, predicted_aspect,
          generation, threshold, entity_cosine_score, aspect_cosine_score,
          keep_entity_prediction, keep_aspect_prediction,
          requests, encode_calls, cos_sim

gen_vars == <<review, messages, completion, review_analysis, true_entity,
              true_aspect, predicted_entity, predicted_aspect, generation>>
eval_vars == <<threshold, entity_cosine_score, aspect_cosine_score,
               keep_entity_prediction, keep_aspect_prediction, encode_calls, cos_sim>>
vars == <<pc, error, df, requests, gen_vars, eval_vars>>

\* Python's None, and a set attribute
None == <<>>
Some(v) == <<v>>

Init ==
    /\ pc = "start"
    /\ error = ""
    /\ df = <<>>
    /\ review = ""
    /\ messages = <<>>
    /\ completion = None
    /\ review_analysis = PyDict(<<>>, <<>>)
    /\ true_entity = <<>>
    /\ true_aspect = <<>>
    /\ predicted_entity = <<>>
    /\ predicted_aspect = <<>>
    /\ generation = <<>>
    /\ threshold = DefaultThreshold
    /\ entity_cosine_score = 0
    /\ aspect_cosine_score = 0
    /\ keep_entity_prediction = None
    /\ keep_aspect_prediction = None
    /\ requests = 0
    /\ encode_calls = 0
    /\ cos_sim = {}

\* main.py:33  df = load_data(path='sample_review.csv')
LoadData ==
    /\ pc = "start"
    /\ \E csv \in CsvFiles : df' = csv
    /\ pc' = "loaded"
    /\ UNCHANGED <<error, requests, gen_vars, eval_vars>>

\* ModelEntityAspectGeneration.__init__ and order_chat_messages up to the
\* blocking call of get_completion_from_messages
OrderChatMessages ==
    /\ pc = "loaded"
    /\ review' = df[1].review
    /\ messages' = << [role |-> "system", content |-> "system_prompt"],
                      [role |-> "user", content |-> "initial_user_prompt"],
                      [role |-> "assistant", content |-> "assistant_res_1"],
                      [role |-> "user", content |-> "user_clarification_prompt"],
                      [role |-> "assistant", content |-> "assistant_res_2"],
                      [role |-> "user", content |-> df[1].review] >>
    /\ requests' = requests + 1
    /\ pc' = "awaiting"
    /\ UNCHANGED <<error, df, completion, review_analysis, true_entity, true_aspect,
                   predicted_entity, predicted_aspect, generation, eval_vars>>

\* variant: a failed request is issued again
CompletionFailsRetry ==
    /\ pc = "awaiting"
    /\ error' = "APIError"
    /\ pc' = "loaded"
    /\ UNCHANGED <<df, requests, gen_vars, eval_vars>>

\* client.chat.completions.create raises: nothing catches it
CompletionFails ==
    /\ pc = "awaiting"
    /\ error' = "APIError"
    /\ pc' = "aborted"
    /\ UNCHANGED <<df, requests, gen_vars, eval_vars>>

\* the call returns the first choice's text, which line 123 parses
CompletionReturns ==
    /\ pc = "awaiting"
    /\ \E text \in CompletionTexts :
         LET r == literal_eval(text)
         IN  /\ completion' = Some(text)
             /\ IF r.exc # ""
                THEN /\ error' = r.exc
                     /\ pc' = "aborted"
                     /\ UNCHANGED review_analysis
                ELSE /\ review_analysis' = r.value
                     /\ pc' = "analysed"
                     /\ UNCHANGED error
    /\ UNCHANGED <<df, requests, review, messages, true_entity, true_aspect,
                   predicted_entity, predicted_aspect, generation, eval_vars>>

ExtractTrueVal ==
    /\ pc = "analysed"
    /\ true_entity' = <<PyStr(df[1].true_entity)>>
    /\ true_aspect' = <<PyStr(df[1].true_aspect)>>
    /\ pc' = "true_val"
    /\ UNCHANGED <<error, df, requests, review, messages, completion, review_analysis,
                   predicted_entity, predicted_aspect, generation, eval_vars>>

ExtractTuple ==
    /\ pc = "true_val"
    /\ LET r == ExtractTupleResult(review_analysis)
       IN  IF r.exc # ""
           THEN /\ error' = r.exc
                /\ pc' = "aborted"
                /\ UNCHANGED <<predicted_entity, predicted_aspect, generation>>
           ELSE /\ generation' = <<r.entity, r.aspect>>
                /\ predicted_entity' = <<r.entity>>
                /\ predicted_aspect' = <<r.aspect>>
                /\ pc' = "generated"
                /\ UNCHANGED error
    /\ UNCHANGED <<df, requests, review, messages, completion, review_analysis,
                   true_entity, true_aspect, eval_vars>>

\* ModelEvaluation.__init__, lines 42-48.  flow() passes no threshold (the
\* default); any other caller chooses one.  A finished generation object
\* can be evaluated again.
ModelEvaluationInit ==
    /\ pc \in {"generated", "done"}
    /\ \E threshold_score \in Thresholds : threshold' = threshold_score
    /\ entity_cosine_score' = 0
    /\ aspect_cosine_score' = 0
    /\ keep_entity_prediction' = None
    /\ keep_aspect_prediction' = None
    /\ encode_calls' = 0
    /\ pc' = "eval_init"
    /\ UNCHANGED <<error, df, requests, gen_vars, cos_sim>>

\* extract_cosine_score: two model.encode calls, then util.cos_sim.  The
\* model is deterministic: cos_sim remembers what it answered for a pair.
Known(t, p) == {c \in cos_sim : c.true_val = t /\ c.predicted_val = p}
\* variant: one encode call per score
ExtractCosineScoreOneEncode(t, p, score) ==
    /\ IF Known(t, p) # {}
       THEN /\ score \in {c.score : c \in Known(t, p)}
            /\ UNCHANGED cos_sim
       ELSE /\ score \in CosineOutcomes(t[1], p[1])
            /\ cos_sim' = cos_sim \cup {[true_val |-> t, predicted_val |-> p, score |-> score]}
    /\ encode_calls' = encode_calls + 1
ExtractCosineScore(t, p, score) ==
    /\ IF Known(t, p) # {}
       THEN /\ score \in {c.score : c \in Known(t, p)}
            /\ UNCHANGED cos_sim
       ELSE /\ score \in CosineOutcomes(t[1], p[1])
            /\ cos_sim' = cos_sim \cup {[true_val |-> t, predicted_val |-> p, score |-> score]}
    /\ encode_calls' = encode_calls + 2

\* variant: the entity is scored against the predicted aspect
ExtractCosineScoreEntityFromAspect ==
    /\ pc = "eval_init"
    /\ \E score \in (-Unit - Ulp)..(Unit + Ulp) :
         /\ ExtractCosineScore(true_entity, predicted_aspect, score)
         /\ entity_cosine_score' = score
    /\ pc' = "entity_scored"
    /\ UNCHANGED <<error, df, requests, gen_vars, threshold, aspect_cosine_score,
                   keep_entity_prediction, keep_aspect_prediction>>

\* invoke_extract_cosine_score_logic, line 79
ExtractCosineScoreEntity ==
    /\ pc = "eval_init"
    /\ \E score \in (-Unit - Ulp)..(Unit + Ulp) :
         /\ ExtractCosineScore(true_entity, predicted_entity, score)
         /\ entity_cosine_score' = score
    /\ pc' = "entity_scored"
    /\ UNCHANGED <<error, df, requests, gen_vars, threshold, aspect_cosine_score,
                   keep_entity_prediction, keep_aspect_prediction>>

\* invoke_extract_cosine_score_logic, line 80
ExtractCosineScoreAspect ==
    /\ pc = "entity_scored"
    /\ \E score \in (-Unit - Ulp)..(Unit + Ulp) :
         /\ ExtractCosineScore(true_aspect, predicted_aspect, score)
         /\ aspect_cosine_score' = score
    /\ pc' = "scored"
    /\ UNCHANGED <<error, df, requests, gen_vars, threshold, entity_cosine_score,
                   keep_entity_prediction, keep_aspect_prediction>>

\* variant: the aspect flag is decided by the entity score
InvokeEvaluationLogicEntityTwice ==
    /\ pc = "scored"
    /\ keep_entity_prediction' = Some(evaluate(entity_cosine_score, threshold))
    /\ keep_aspect_prediction' = Some(evaluate(entity_cosine_score, threshold))
    /\ pc' = "done"
    /\ UNCHANGED <<error, df, requests, gen_vars, threshold, entity_cosine_score,
                   aspect_cosine_score, encode_calls, cos_sim>>

\* invoke_evaluation_logic; the constructor returns and flow() returns it
InvokeEvaluationLogic ==
    /\ pc = "scored"
    /\ keep_entity_prediction' = Some(evaluate(entity_cosine_score, threshold))
    /\ keep_aspect_prediction' = Some(evaluate(aspect_cosine_score, threshold))
    /\ pc' = "done"
    /\ UNCHANGED <<error, df, requests, gen_vars, threshold, entity_cosine_score,
                   aspect_cosine_score, encode_calls, cos_sim>>

Next ==
    \/ LoadData
    \/ OrderChatMessages
    \/ CompletionFails
    \/ CompletionReturns
    \/ ExtractTrueVal
    \/ ExtractTuple
    \/ ModelEvaluationInit
    \/ ExtractCosineScoreEntity
    \/ ExtractCosineScoreAspect
    \/ InvokeEvaluationLogic

Spec == Init /\ [][Next]_vars

TypeOK ==
    /\ pc \in {"start", "loaded", "awaiting", "analysed", "true_val", "generated",
               "eval_init", "entity_scored", "scored", "done", "aborted"}
    /\ requests \in 0..2
    /\ encode_calls \in 0..4


\* ------------------------------------------------- shapes of a completion
HasKey(d, k) == \E i \in 1..Len(d.keys) : d.keys[i] = k
ValueAt(d, k) == d.items[CHOOSE i \in 1..Len(d.keys) : d.keys[i] = k]

\* a record with a text named_entity and a sequence of text aspect phrases
IsRecord(r) ==
    /\ r.kind = "dict"
    /\ HasKey(r, PyStr(named_entity))
    /\ ValueAt(r, PyStr(named_entity)).kind = "str"
    /\ HasKey(r, PyStr(aspect))
    /\ ValueAt(r, PyStr(aspect)).kind = "list"
    /\ \A i \in 1..Len(ValueAt(r, PyStr(aspect)).items) :
          ValueAt(r, PyStr(aspect)).items[i].kind = "str"

\* the expected structured mapping: key "1" holds such a record
ExpectedShape(t) ==
    /\ t.kind = "dict"
    /\ HasKey(t, PyStr(one))
    /\ IsRecord(ValueAt(t, PyStr(one)))

FirstRecord(t) == ValueAt(t, PyStr(one))
AspectList(t) == ValueAt(FirstRecord(t), PyStr(aspect)).items
FirstEntity(t) == ValueAt(FirstRecord(t), PyStr(named_entity))
FirstAspect(t) == AspectList(t)[1]

\* a well-formed response: numbered records, the first with an aspect phrase
WellFormed(t) ==
    /\ ExpectedShape(t)
    /\ \A i \in 1..Len(t.items) : IsRecord(t.items[i])
    /\ Len(AspectList(t)) >= 1

ParseFails(t) == t.kind = "invalid" \/ ~IsLiteral(t)
NoKeyOne(t) == ~ParseFails(t) /\ t.kind = "dict" /\ ~HasKey(t, PyStr(one))
EmptyAspect(t) == ~ParseFails(t) /\ ExpectedShape(t) /\ Len(AspectList(t)) = 0
FailureMode(t) == ParseFails(t) \/ NoKeyOne(t) \/ EmptyAspect(t)

Received == completion # None
Text == completion[1]
BeforeExtraction == {"start", "loaded", "awaiting", "analysed", "true_val"}
EvalStages == {"eval_init", "entity_scored", "scored", "done"}
Unset ==
    /\ predicted_entity = <<>>
    /\ predicted_aspect = <<>>
    /\ generation = <<>>
NoEvaluation ==
    /\ pc \notin EvalStages
    /\ encode_calls = 0
    /\ cos_sim = {}
    /\ keep_entity_prediction = None
    /\ keep_aspect_prediction = None
Answer(t, p, score) == [true_val |-> t, predicted_val |-> p, score |-> score] \in cos_sim

\* ----------------------------------------------------------------- claims

\* C1: every completion text that deviates from the expected structured
\* mapping makes the construction of ModelEntityAspectGeneration raise and
\* leaves predicted_entity / predicted_aspect unset.
C1_MalformedRaises ==
    (Received /\ ~ExpectedShape(Text)) =>
        /\ pc \in {"analysed", "true_val", "aborted"}
        /\ Unset

\* C2: for a well-formed response the prediction is exactly one pair, the
\* named_entity of the record under "1" and the first phrase of its aspect
\* list; no other pair and no later phrase changes it.
C2_FirstPairOnly ==
    (Received /\ WellFormed(Text)) =>
        /\ pc # "aborted"
        /\ pc \notin BeforeExtraction =>
             /\ predicted_entity = <<FirstEntity(Text)>>
             /\ predicted_aspect = <<FirstAspect(Text)>>
             /\ generation = <<FirstEntity(Text), FirstAspect(Text)>>
        /\ \A u \in CompletionTexts :
             (WellFormed(u) /\ FirstEntity(u) = FirstEntity(Text)
                            /\ FirstAspect(u) = FirstAspect(Text)) =>
                 ExtractTupleResult(literal_eval(u).value)
                     = ExtractTupleResult(literal_eval(Text).value)

C2_Witness ==
    /\ pc = "generated"
    /\ Text = txtFoodDecentFresh
    /\ predicted_entity = <<PyStr(food)>>
    /\ predicted_aspect = <<PyStr(decent)>>

\* C3: a parse failure, a missing key "1" and an empty aspect list are each
\* fatal: the run never gets past extraction, no evaluation object, no
\* embedding call and no keep-flag exist, the request is not repeated, and
\* nothing happens after the abort.
C3_FailureInv ==
    (Received /\ FailureMode(Text)) =>
        /\ pc \in {"analysed", "true_val", "aborted"}
        /\ ParseFails(Text) => pc = "aborted"
        /\ Unset
        /\ NoEvaluation
        /\ requests = 1
C3_FailuresFatal == []C3_FailureInv /\ [][pc # "aborted"]_vars

C3_Witness ==
    /\ pc = "aborted"
    /\ Received
    /\ EmptyAspect(Text)
    /\ error = "IndexError"

\* C4 (as stated): at threshold 0.0 every score accepts, so both keep-flags
\* are true after any successful run at threshold 0.0.
C4_ZeroAcceptsAll ==
    (pc = "done" /\ threshold = 0) =>
        /\ keep_entity_prediction = Some(TRUE)
        /\ keep_aspect_prediction = Some(TRUE)

\* C4 (amended): at threshold 0.0 a score accepts exactly when it is not
\* negative: every score in [0, 1] accepts, every score in [-1, 0) rejects.
C4_ZeroAcceptsNonNegative ==
    (pc = "done" /\ threshold = 0) =>
        /\ keep_entity_prediction = Some(entity_cosine_score >= 0)
        /\ keep_aspect_prediction = Some(aspect_cosine_score >= 0)

C4_Witness ==
    /\ pc = "done"
    /\ threshold = 0
    /\ entity_cosine_score = 0
    /\ keep_entity_prediction = Some(TRUE)
    /\ aspect_cosine_score < 0
    /\ keep_aspect_prediction = Some(FALSE)

\* C5 (as stated): identical true and predicted strings score exactly 1.0
\* and are kept at every threshold <= 1.0, threshold 1.0 included.
C5_IdenticalExact ==
    pc = "done" =>
        /\ true_entity = predicted_entity =>
             /\ entity_cosine_score = Unit
             /\ threshold <= Unit => keep_entity_prediction = Some(TRUE)
        /\ true_aspect = predicted_aspect =>
             /\ aspect_cosine_score = Unit
             /\ threshold <= Unit => keep_aspect_prediction = Some(TRUE)

\* C5 (amended): identical true and predicted strings score 1.0 up to the
\* floating-point rounding error and are kept at every threshold that is
\* at most 1.0 minus that error; the run with true food/decent and the
\* completion {"1": {named_entity: food, aspect: [decent]}} at the default
\* threshold ends with both keep-flags true.
C5_IdenticalWithinTolerance ==
    pc = "done" =>
        /\ true_entity = predicted_entity =>
             /\ entity_cosine_score \in (Unit - Ulp)..(Unit + Ulp)
             /\ threshold <= Unit - Ulp => keep_entity_prediction = Some(TRUE)
        /\ true_aspect = predicted_aspect =>
             /\ aspect_cosine_score \in (Unit - Ulp)..(Unit + Ulp)
             /\ threshold <= Unit - Ulp => keep_aspect_prediction = Some(TRUE)
        /\ (df[1] = RowFood /\ Text = txtFoodDecent /\ threshold = DefaultThreshold) =>
             /\ keep_entity_prediction = Some(TRUE)
             /\ keep_aspect_prediction = Some(TRUE)

C5_Witness ==
    /\ pc = "done"
    /\ df[1] = RowFood
    /\ Text = txtFoodDecent
    /\ threshold = DefaultThreshold
    /\ true_entity = predicted_entity
    /\ true_aspect = predicted_aspect
    /\ keep_entity_prediction = Some(TRUE)
    /\ keep_aspect_prediction = Some(TRUE)

\* C6 (as stated): at a threshold above 1.0 no score accepts, so both
\* keep-flags are false after any successful run at such a threshold.
C6_AboveOneRejectsAll ==
    (pc = "done" /\ threshold > Unit) =>
        /\ keep_entity_prediction = Some(FALSE)
        /\ keep_aspect_prediction = Some(FALSE)

\* C6 (amended): at a threshold above 1.0 no score in [-1, 1] accepts, and
\* at a threshold above 1.0 plus the rounding error no score accepts at all.
C6_AboveOneRejectsRange ==
    (pc = "done" /\ threshold > Unit) =>
        /\ entity_cosine_score <= Unit => keep_entity_prediction = Some(FALSE)
        /\ aspect_cosine_score <= Unit => keep_aspect_prediction = Some(FALSE)
        /\ threshold > Unit + Ulp =>
             /\ keep_entity_prediction = Some(FALSE)
             /\ keep_aspect_prediction = Some(FALSE)

C6_Witness ==
    /\ pc = "done"
    /\ threshold = Unit + Ulp
    /\ entity_cosine_score = Unit
    /\ aspect_cosine_score = Unit
    /\ keep_entity_prediction = Some(FALSE)
    /\ keep_aspect_prediction = Some(FALSE)

\* C7: load, extract, evaluate happen in that order with exactly one
\* completion request: it is issued only once the CSV row is loaded, never
\* again (an API error ends the run), and no embedding or threshold step
\* starts before extraction has produced the prediction pair.
C7_OrderInv ==
    /\ requests <= 1
    /\ requests = 1 <=> pc \notin {"start", "loaded"}
    /\ requests = 1 => df # <<>>
    /\ error = "APIError" => pc = "aborted"
    /\ (pc \in EvalStages \/ encode_calls > 0 \/ cos_sim # {}
          \/ keep_entity_prediction # None \/ keep_aspect_prediction # None) =>
         /\ Len(predicted_entity) = 1
         /\ Len(predicted_aspect) = 1
         /\ requests = 1
C7_Sequential ==
    /\ []C7_OrderInv
    /\ [][requests' # requests => (pc = "loaded" /\ requests = 0 /\ pc' = "awaiting")]_vars
    /\ [][error # "APIError"]_vars

C7_Witness ==
    /\ pc = "aborted"
    /\ error = "APIError"
    /\ requests = 1

C9_PerField ==
    pc = "done" =>
        /\ keep_entity_prediction \in {Some(TRUE), Some(FALSE)}
        /\ keep_aspect_prediction \in {Some(TRUE), Some(FALSE)}
        /\ keep_entity_prediction = Some(entity_cosine_score >= threshold)
        /\ keep_aspect_prediction = Some(aspect_cosine_score >= threshold)
        /\ Answer(true_entity, predicted_entity, entity_cosine_score)
        /\ Answer(true_aspect, predicted_aspect, aspect_cosine_score)
        /\ \A c \in cos_sim :
             /\ (c.true_val = true_entity /\ c.predicted_val = predicted_entity)
                  => c.score = entity_cosine_score
             /\ (c.true_val = true_aspect /\ c.predicted_val = predicted_aspect)
                  => c.score = aspect_cosine_score

C9_Witness ==
    /\ pc = "done"
    /\ keep_entity_prediction = Some(TRUE)
    /\ keep_aspect_prediction = Some(FALSE)
    /\ entity_cosine_score >= threshold
    /\ aspect_cosine_score < threshold

\* C10: a first pair whose named_entity or first aspect is the string
\* "None" neither fails nor short-circuits the run: "None" is the
\* predicted value, it is embedded and scored against the true value, and
\* its keep-flag is score >= threshold.
NonePredicted(t) ==
    WellFormed(t) /\ (FirstEntity(t) = PyStr(NoneText) \/ FirstAspect(t) = PyStr(NoneText))
C10_NoneIsScored ==
    (Received /\ NonePredicted(Text)) =>
        /\ pc # "aborted"
        /\ pc \notin BeforeExtraction =>
             /\ predicted_entity = <<FirstEntity(Text)>>
             /\ predicted_aspect = <<FirstAspect(Text)>>
        /\ pc = "done" =>
             /\ encode_calls = 4
             /\ Answer(true_entity, predicted_entity, entity_cosine_score)
             /\ Answer(true_aspect, predicted_aspect, aspect_cosine_score)
             /\ keep_entity_prediction = Some(entity_cosine_score >= threshold)
             /\ keep_aspect_prediction = Some(aspect_cosine_score >= threshold)

C10_Witness ==
    /\ pc = "done"
    /\ predicted_entity = <<PyStr(NoneText)>>
    /\ predicted_aspect = <<PyStr(NoneText)>>
    /\ keep_entity_prediction = Some(TRUE)
    /\ keep_aspect_prediction = Some(FALSE)

=============================================================================
